---- MODULE Spec2Model ----
(***************************************************************************)
(* Model of src/src/utils/request.ts: the Request singleton (login, token  *)
(* refresh with a retry queue, retry on failure) and the authStore.        *)
(*                                                                         *)
(* The program runs on one JavaScript thread.  Control is yielded only at  *)
(* `await wx.login()` and while a wx.request is outstanding, so one action *)
(* of the model is one callback of the platform (a login result or a       *)
(* transport reply) together with every promise continuation it runs.      *)
(* A token is a natural number, 0 standing for the empty string.           *)
(***************************************************************************)
EXTENDS Integers, Sequences, FiniteSets, TLC

\* ------------------------------------------------------------------ bounds
NumCallers == 1          \* calls of request() the application makes, with any config
MaxFaults == 2           \* replies other than code 200 in one run (see FaultAllowed)
MaxRetryCfg == 1         \* the largest `retry` a caller passes explicitly
MaxStoreToken == 3       \* the tokens passed to authStore.setToken directly: 1..MaxStoreToken
MaxCalls == 6            \* the direct calls of authStore methods in one run

\* ------------------------------------------------------- program constants
MAX_RETRY_COUNT == 3

\* The scenario of concurrent calls (see InitQueue): two more calls, one more fault.
QueueCallers == NumCallers + 2
QueueFaults == MaxFaults + 1

Callers == 1..QueueCallers
Frames == {"main", "login", "refresh"}
NoRetry == -1            \* the `retry` field is absent from the caller's config

\* The configs a caller may pass: the config of api.getUser (only `loading` given)
\* and that config with one field changed: auth given as false, loading left
\* out, or retry given as a number.
ApiConfig == [auth |-> "absent", loading |-> "true", retry |-> NoRetry]

Configs ==
    {ApiConfig, [ApiConfig EXCEPT !.auth = "false"], [ApiConfig EXCEPT !.loading = "absent"]}
        \cup {[ApiConfig EXCEPT !.retry = r] : r \in 0..MaxRetryCfg}

\* The configs login() and refreshToken() pass to request().
AuthEndpointConfig == [auth |-> "false", loading |-> "absent", retry |-> NoRetry]

VARIABLES
    token,          \* authStore.token
    storage,        \* wx storage, key 'token' (0: absent)
    isRefreshing,   \* Request.isRefreshing
    retryQueue,     \* Request.retryQueue: the deferred closures, oldest first
    req,            \* per caller: its config and where its call chain is suspended
    nextToken,      \* the next token the server issues
    faults,         \* replies other than code 200 so far (see FaultAllowed)
    scenario,       \* what the environment may do in this run; it never changes
    probe           \* what direct calls of the authStore methods have shown

vars == <<token, storage, isRefreshing, retryQueue, req, nextToken, faults,
          scenario, probe>>

\* The program state an operator transforms; `nsent` counts the wx.request calls
\* made so far by the current callback.
World ==
    [token |-> token, storage |-> storage, isRefreshing |-> isRefreshing,
     retryQueue |-> retryQueue, req |-> req, nsent |-> 0]

\* An error: the request (or wx.login) it comes from and what it is.
NoError == [from |-> "none", kind |-> "none"]
PlatformError == [from |-> "wxLogin", kind |-> "platform"]
EnvelopeError(f) == [from |-> f, kind |-> "envelope"]    \* new Error(response.message)
TransportError(f) == [from |-> f, kind |-> "transport"]  \* the error of the fail callback

\* Nothing has been called on the authStore directly.  calls counts the calls,
\* last and val are the last write (setToken(val) or clearToken), ret is what the
\* last getToken returned, reads counts the calls of wx.getStorageSync since the
\* last write.
NoProbe ==
    [calls |-> 0, op |-> "none", last |-> "none", val |-> 0, ret |-> 0, reads |-> 0]

IdleReq ==
    [cfg |-> ApiConfig, pc |-> "idle",
     retryCount |-> [f \in Frames |-> 0],
     refFor |-> "none", hdr |-> 0, mark |-> "none", pos |-> 0,
     nsend |-> 0, nlogin |-> 0,
     loadDepth |-> 0, touched |-> FALSE, err |-> NoError.from]

\* ---------------------------------------------------------------- authStore
\* setToken without wx.setStorageSync.
setToken_MemoryOnly(w, c, t) ==
    [w EXCEPT !.token = t, !.req[c].touched = TRUE]

setToken(w, c, t) ==
    [w EXCEPT !.token = t, !.storage = t, !.req[c].touched = TRUE]

\* The state after authStore.getToken(); the value returned is its .token.
getToken(w, c) ==
    [w EXCEPT !.token = IF w.token # 0 THEN w.token ELSE w.storage,
              !.req[c].touched = TRUE]

clearToken(w, c) ==
    [w EXCEPT !.token = 0, !.storage = 0, !.req[c].touched = TRUE]

\* ------------------------------------------------------------------ Request
mergeConfig(config) ==
    [loading |-> IF config.loading = "absent" THEN FALSE ELSE config.loading = "true",
     auth |-> IF config.auth = "absent" THEN TRUE ELSE config.auth = "true",
     retry |-> IF config.retry = NoRetry THEN MAX_RETRY_COUNT ELSE config.retry]

\* The merged config of frame f of caller c's call chain.
ConfigOf(w, c, f) ==
    IF f = "main" THEN mergeConfig(w.req[c].cfg) ELSE mergeConfig(AuthEndpointConfig)

AwaitOf(f) ==
    CASE f = "main" -> "send" [] f = "login" -> "loginReq" [] f = "refresh" -> "refreshReq"

\* wx.request is called: the header is built and the call is outstanding.
\* pos is the place of this call among the calls the running callback makes;
\* mark is "fresh" for an authenticated request sent while no refresh is active.
wxRequest(w, c, f) ==
    LET auth == ConfigOf(w, c, f).auth
        w1 == IF auth THEN getToken(w, c) ELSE w
        h == IF auth THEN w1.token ELSE 0
    IN [w1 EXCEPT !.req[c].pc = AwaitOf(f),
                  !.req[c].hdr = IF f = "main" THEN h ELSE @,
                  !.req[c].mark = IF f # "main" THEN @
                                  ELSE IF auth /\ ~w.isRefreshing THEN "fresh" ELSE "none",
                  !.req[c].nsend = IF f = "main" THEN @ + 1 ELSE @,
                  !.req[c].pos = w.nsent + 1,
                  !.nsent = @ + 1]

\* login() up to `await wx.login()`.
login(w, c) ==
    [w EXCEPT !.req[c].pc = "wxLogin", !.req[c].nlogin = @ + 1]

\* handleRequest(config, retryCount) up to its first await.
handleRequest(w, c, f, retryCount) ==
    LET auth == ConfigOf(w, c, f).auth
        w0 == [w EXCEPT !.req[c].retryCount[f] = retryCount]
        w1 == IF auth THEN getToken(w0, c) ELSE w0
    IN IF auth /\ w1.token = 0 THEN login(w1, c) ELSE wxRequest(w1, c, f)

\* request(config) up to its first await.  nsend and nlogin count the sends and
\* the Login Flows of the current call of request() for the caller's config.
request(w, c, f) ==
    LET w0 == IF f = "main" THEN [w EXCEPT !.req[c].nsend = 0, !.req[c].nlogin = 0] ELSE w
        w1 == IF ConfigOf(w0, c, f).loading
              THEN [w0 EXCEPT !.req[c].loadDepth = @ + 1] ELSE w0
    IN handleRequest(w1, c, f, 0)

\* The call of handleRequest for frame f has returned: its retryCount is gone.
frameEnded(w, c, f) ==
    [w EXCEPT !.req[c].retryCount[f] = 0,
              !.req[c].hdr = IF f = "main" THEN 0 ELSE @,
              !.req[c].mark = IF f = "main" THEN "none" ELSE @,
              !.req[c].nsend = IF f = "main" THEN 0 ELSE @,
              !.req[c].nlogin = IF f = "main" THEN 0 ELSE @,
              !.req[c].pos = 0]

\* The Refresh Flow that caller c started for the credential of its request has
\* ended: the requests still outstanding that were sent with that credential while
\* no refresh was active are marked "served".
refreshEnded(w, c) ==
    LET h == IF w.req[c].refFor = "main" THEN w.req[c].hdr ELSE 0
    IN [w EXCEPT !.req = [d \in Callers |->
            IF /\ d # c /\ h # 0 /\ w.req[d].pc = "send"
               /\ w.req[d].mark = "fresh" /\ w.req[d].hdr = h
            THEN [w.req[d] EXCEPT !.mark = "served"] ELSE w.req[d]]]

\* dropQueue with the queued callers rejected instead of left pending.
dropQueue_Rejects(w) ==
    [w EXCEPT !.retryQueue = <<>>,
              !.req = [c \in Callers |->
                         IF \E i \in 1..Len(w.retryQueue) : w.retryQueue[i].who = c
                         THEN [w.req[c] EXCEPT !.pc = "failed", !.loadDepth = 0]
                         ELSE w.req[c]]]

\* The closures of the queue are discarded: their callers stay pending for ever.
dropQueue(w) ==
    [w EXCEPT !.retryQueue = <<>>,
              !.req = [c \in Callers |->
                         IF \E i \in 1..Len(w.retryQueue) : w.retryQueue[i].who = c
                         THEN [w.req[c] EXCEPT !.pc = "dropped"] ELSE w.req[c]]]

RECURSIVE requestRejected(_, _, _, _)
RECURSIVE handleRequestCatch(_, _, _, _)
RECURSIVE loginCatch(_, _, _)
RECURSIVE handleTokenExpiredCatch(_, _, _)
RECURSIVE refreshTokenCatch(_, _, _)

\* `config.retry || MAX_RETRY_COUNT`: 0 is falsy.
RetryLimit(config) == IF config.retry # 0 THEN config.retry ELSE MAX_RETRY_COUNT

\* The catch block of handleRequest for frame f, entered with error e.
handleRequestCatch(w, c, f, e) ==
    IF w.req[c].retryCount[f] < RetryLimit(ConfigOf(w, c, f))
    THEN handleRequest(w, c, f, w.req[c].retryCount[f] + 1)
    ELSE requestRejected(w, c, f, e)

\* The catch block of login(): it rethrows inside the try of the main handleRequest.
loginCatch(w, c, e) == handleRequestCatch(w, c, "main", e)

\* handleTokenExpiredCatch as it would be had handleRequest awaited
\* handleTokenExpired: the rejection lands in the catch block of handleRequest.
handleTokenExpiredCatch_Awaited(w, c, e) ==
    LET f == w.req[c].refFor
        w1 == dropQueue([refreshEnded(w, c) EXCEPT !.isRefreshing = FALSE])
    IN handleRequestCatch([w1 EXCEPT !.req[c].refFor = "none"], c, f, e)

\* handleTokenExpiredCatch without `this.retryQueue = []`.
handleTokenExpiredCatch_KeepQueue(w, c, e) ==
    LET f == w.req[c].refFor
        w1 == [refreshEnded(w, c) EXCEPT !.isRefreshing = FALSE]
    IN requestRejected(frameEnded([w1 EXCEPT !.req[c].refFor = "none"], c, f), c, f, e)

\* The catch block of handleTokenExpired.  Its rejection settles the promise that
\* handleRequest returned without awaiting, so no catch of handleRequest sees it.
handleTokenExpiredCatch(w, c, e) ==
    LET f == w.req[c].refFor
        w1 == dropQueue([refreshEnded(w, c) EXCEPT !.isRefreshing = FALSE])
    IN requestRejected(frameEnded([w1 EXCEPT !.req[c].refFor = "none"], c, f), c, f, e)

\* The catch block of refreshToken.
refreshTokenCatch(w, c, e) ==
    handleTokenExpiredCatch(clearToken(frameEnded(w, c, "refresh"), c), c, e)

\* The promise of request(config) of frame f rejects with e (after its finally).
requestRejected(w, c, f, e) ==
    CASE f = "main" ->
           [frameEnded(w, c, f) EXCEPT
               !.req[c].pc = "failed", !.req[c].err = e.from, !.req[c].loadDepth = 0]
      [] f = "login" -> loginCatch(frameEnded(w, c, f), c, e)
      [] f = "refresh" -> refreshTokenCatch(w, c, e)

\* drain with the queue walked from its newest entry.
RECURSIVE drain_Reversed(_, _)
drain_Reversed(w, q) ==
    IF q = <<>> THEN w
    ELSE drain_Reversed(request(w, q[Len(q)].who, q[Len(q)].frame), SubSeq(q, 1, Len(q) - 1))

\* this.retryQueue.forEach((retry) => retry())
RECURSIVE drain(_, _)
drain(w, q) ==
    IF q = <<>> THEN w ELSE drain(request(w, Head(q).who, Head(q).frame), Tail(q))

\* handleTokenExpiredResume without `this.retryQueue = []`.
handleTokenExpiredResume_KeepQueue(w, c) ==
    LET f == w.req[c].refFor
        w1 == drain([refreshEnded(w, c) EXCEPT !.isRefreshing = FALSE], w.retryQueue)
        w2 == [w1 EXCEPT !.req[c].refFor = "none"]
    IN request(w2, c, f)

\* handleTokenExpired after `await this.refreshToken()` has returned.
handleTokenExpiredResume(w, c) ==
    LET f == w.req[c].refFor
        w1 == drain([refreshEnded(w, c) EXCEPT !.isRefreshing = FALSE], w.retryQueue)
        w2 == [w1 EXCEPT !.retryQueue = <<>>, !.req[c].refFor = "none"]
    IN request(w2, c, f)

\* requestResolved with refreshToken storing the new token only after
\* handleTokenExpired has resent the requests.
requestResolved_StoreLate(w, c, f, t) ==
    CASE f = "main" ->
           [frameEnded(w, c, f) EXCEPT !.req[c].pc = "done", !.req[c].loadDepth = 0]
      [] f = "login" -> wxRequest(setToken(frameEnded(w, c, f), c, t), c, "main")
      [] f = "refresh" ->
           setToken(handleTokenExpiredResume(frameEnded(w, c, f), c), c, t)

\* requestResolved with a code-200 reply to the caller's request also ending the
\* refresh in progress and flushing the queue.
requestResolved_Flush(w, c, f, t) ==
    CASE f = "main" ->
           [frameEnded(w, c, f) EXCEPT !.req[c].pc = "done", !.req[c].loadDepth = 0,
                                       !.isRefreshing = FALSE, !.retryQueue = <<>>]
      [] f = "login" -> wxRequest(setToken(frameEnded(w, c, f), c, t), c, "main")
      [] f = "refresh" ->
           handleTokenExpiredResume(setToken(frameEnded(w, c, f), c, t), c)

\* The promise of request(config) of frame f resolves with a code-200 envelope
\* whose data.token is t.
requestResolved(w, c, f, t) ==
    CASE f = "main" ->
           [frameEnded(w, c, f) EXCEPT !.req[c].pc = "done", !.req[c].loadDepth = 0]
      [] f = "login" -> wxRequest(setToken(frameEnded(w, c, f), c, t), c, "main")
      [] f = "refresh" ->
           handleTokenExpiredResume(setToken(frameEnded(w, c, f), c, t), c)

\* refreshToken() up to its await.
refreshToken(w, c) == request(getToken(w, c), c, "refresh")

\* handleTokenExpired without the test of isRefreshing.
handleTokenExpired_NoGuard(w, c, f) ==
    refreshToken([w EXCEPT !.isRefreshing = TRUE,
                           !.req[c].refFor = IF f = "refresh" THEN @ ELSE f], c)

\* handleTokenExpired(config) of frame f up to its first await.  A /auth/refresh
\* request can only get here while isRefreshing is true.
handleTokenExpired(w, c, f) ==
    IF w.isRefreshing
    THEN [w EXCEPT !.retryQueue = Append(@, [who |-> c, frame |-> f]),
                   !.req[c].pc = "queued"]
    ELSE refreshToken(
             [w EXCEPT !.isRefreshing = TRUE,
                       !.req[c].refFor = IF f = "refresh" THEN @ ELSE f], c)

\* `if (!this.token)`: getToken calls wx.getStorageSync.
getTokenReads(w) == w.token = 0

\* ------------------------------------------------------------------ actions
FrameOf(c) ==
    CASE req[c].pc = "send" -> "main"
      [] req[c].pc = "loginReq" -> "login"
      [] req[c].pc = "refreshReq" -> "refresh"

Outstanding(c) == req[c].pc \in {"send", "loginReq", "refreshReq"}

\* The environment answers with something other than code 200 at most
\* scenario.faults times.  A failed attempt of /auth/refresh is not counted:
\* handleRequest gives up on that request after MAX_RETRY_COUNT retries, and a
\* refresh starts only after a 401, which is counted.  Where scenario.errors is
\* false, the faults of the other requests are 401 replies (and rejections of
\* wx.login) only.
FaultAllowed == faults < scenario.faults

ErrAllowed(c) == req[c].pc = "refreshReq" \/ (scenario.errors /\ FaultAllowed)

ErrSpent(c) == IF req[c].pc = "refreshReq" THEN faults ELSE faults + 1

\* The running callback has left the program in world w.
Becomes(w) ==
    /\ token' = w.token
    /\ storage' = w.storage
    /\ isRefreshing' = w.isRefreshing
    /\ retryQueue' = w.retryQueue
    /\ req' = w.req
    /\ scenario' = scenario

\* The application calls request(config).  Callers are numbered in call order,
\* and at most one of them passes a config other than ApiConfig.
Start(c) ==
    /\ req[c].pc = "idle"
    /\ c <= scenario.callers
    /\ \A d \in Callers : d < c => req[d].pc # "idle"
    /\ \E config \in scenario.configs :
         /\ config # ApiConfig => \A d \in Callers : req[d].cfg = ApiConfig
         /\ Becomes(request([World EXCEPT !.req[c].cfg = config], c, "main"))
    /\ UNCHANGED <<nextToken, faults, probe>>

\* wx.login() resolves with a code: login() calls request for /auth/login.
WxLoginOk(c) ==
    /\ req[c].pc = "wxLogin"
    /\ Becomes(request(World, c, "login"))
    /\ UNCHANGED <<nextToken, faults, probe>>

\* wx.login() rejects.
WxLoginFail(c) ==
    /\ req[c].pc = "wxLogin"
    /\ FaultAllowed
    /\ Becomes(loginCatch(World, c, PlatformError))
    /\ faults' = faults + 1
    /\ UNCHANGED <<nextToken, probe>>

\* The success callback delivers an envelope with code 200; /auth/login and
\* /auth/refresh answer with a newly issued token.
Reply200(c) ==
    /\ Outstanding(c)
    /\ Becomes(requestResolved(World, c, FrameOf(c), nextToken))
    /\ nextToken' = IF FrameOf(c) = "main" THEN nextToken ELSE nextToken + 1
    /\ UNCHANGED <<faults, probe>>

\* The success callback delivers an envelope with code 401.
Reply401(c) ==
    /\ Outstanding(c)
    /\ FaultAllowed
    /\ Becomes(handleTokenExpired(World, c, FrameOf(c)))
    /\ faults' = faults + 1
    /\ UNCHANGED <<nextToken, probe>>

\* The success callback delivers an envelope with another code: handleRequest throws.
ReplyOtherCode(c) ==
    /\ Outstanding(c)
    /\ ErrAllowed(c)
    /\ Becomes(handleRequestCatch(World, c, FrameOf(c), EnvelopeError(FrameOf(c))))
    /\ faults' = ErrSpent(c)
    /\ UNCHANGED <<nextToken, probe>>

\* The fail callback rejects the promise of wxRequest (network error, timeout).
TransportFail(c) ==
    /\ Outstanding(c)
    /\ ErrAllowed(c)
    /\ Becomes(handleRequestCatch(World, c, FrameOf(c), TransportError(FrameOf(c))))
    /\ faults' = ErrSpent(c)
    /\ UNCHANGED <<nextToken, probe>>

\* The state after construction: authStore.token is '', the storage holds the
\* token of an earlier run of the application (1) or none.
InitProgram ==
    /\ token = 0
    /\ storage \in {0, 1}
    /\ isRefreshing = FALSE
    /\ retryQueue = <<>>
    /\ req = [c \in Callers |-> IdleReq]
    /\ nextToken = 2
    /\ faults = 0
    /\ probe = NoProbe

Init ==
    /\ InitProgram
    /\ scenario = [callers |-> NumCallers, faults |-> MaxFaults, configs |-> Configs,
                   errors |-> TRUE]

\* Concurrent calls: two more calls and one more fault; every call is made as
\* api.getUser makes it, the storage holds a token, and the server's faults are
\* 401 replies, any failure of /auth/refresh, and rejections of wx.login.
InitQueue ==
    /\ InitProgram
    /\ storage = 1
    /\ scenario = [callers |-> QueueCallers, faults |-> QueueFaults,
                   configs |-> {ApiConfig}, errors |-> FALSE]

\* The authStore methods called directly, in any order (caller 1 stands for the
\* code that calls them).
StoreSet(t) ==
    /\ probe.calls < MaxCalls
    /\ Becomes(setToken(World, 1, t))
    /\ probe' = [probe EXCEPT !.calls = @ + 1, !.op = "set", !.last = "set", !.val = t, !.reads = 0]
    /\ UNCHANGED <<nextToken, faults>>

StoreGet ==
    /\ probe.calls < MaxCalls
    /\ Becomes(getToken(World, 1))
    /\ probe' = [probe EXCEPT !.calls = @ + 1, !.op = "get",
                              !.ret = getToken(World, 1).token,
                              !.reads = IF getTokenReads(World) THEN @ + 1 ELSE @]
    /\ UNCHANGED <<nextToken, faults>>

StoreClear ==
    /\ probe.calls < MaxCalls
    /\ Becomes(clearToken(World, 1))
    /\ probe' = [probe EXCEPT !.calls = @ + 1, !.op = "clear", !.last = "clear", !.val = 0, !.reads = 0]
    /\ UNCHANGED <<nextToken, faults>>

\* The store alone: the storage holds any token or none, and no request is made.
InitStore ==
    /\ token = 0
    /\ storage \in 0..MaxStoreToken
    /\ isRefreshing = FALSE
    /\ retryQueue = <<>>
    /\ req = [c \in Callers |-> IdleReq]
    /\ nextToken = 2
    /\ faults = 0
    /\ probe = NoProbe
    /\ scenario = [callers |-> 0, faults |-> 0, configs |-> {}, errors |-> FALSE]

NextStore ==
    \/ \E t \in 1..MaxStoreToken : StoreSet(t)
    \/ StoreGet
    \/ StoreClear

SpecStore == InitStore /\ [][NextStore]_vars

Next ==
    \E c \in Callers :
        \/ Start(c)
        \/ WxLoginOk(c)
        \/ WxLoginFail(c)
        \/ Reply200(c)
        \/ Reply401(c)
        \/ ReplyOtherCode(c)
        \/ TransportFail(c)

Spec == Init /\ [][Next]_vars

SpecQueue == InitQueue /\ [][Next]_vars

\* Every outstanding wx.login and wx.request eventually calls back (wx.request
\* fails by itself after TIMEOUT); the application need not make another call.
Callback(c) ==
    \/ WxLoginOk(c) \/ WxLoginFail(c) \/ Reply200(c)
    \/ Reply401(c) \/ ReplyOtherCode(c) \/ TransportFail(c)

FairSpec == Spec /\ \A c \in Callers : WF_vars(Callback(c))

\* ------------------------------------------------------------- properties
FairSpecQueue == SpecQueue /\ \A c \in Callers : WF_vars(Callback(c))

Refreshing(c) == req[c].refFor # "none"

\* The /auth/refresh request of caller c gets code 200 in this step.
RefreshSucceeds(c) ==
    /\ req[c].pc = "refreshReq"
    /\ req'[c].refFor = "none"
    /\ nextToken' = nextToken + 1

\* The /auth/refresh request of caller c is given up in this step.
RefreshFails(c) ==
    /\ req[c].pc = "refreshReq"
    /\ req'[c].refFor = "none"
    /\ nextToken' = nextToken

\* C1: at most one Refresh Flow is in flight, and isRefreshing is true exactly
\* while one is: a 401 observed while isRefreshing is true starts no second one.
C1_SingleRefreshInFlight ==
    /\ Cardinality({c \in Callers : Refreshing(c)}) <= 1
    /\ isRefreshing <=> \E c \in Callers : Refreshing(c)

\* A Refresh Flow is in flight and another request that got 401 meanwhile waits.
C1_Witness ==
    /\ isRefreshing
    /\ \E c, d \in Callers :
          /\ req[c].pc = "refreshReq"
          /\ req[d].pc = "queued"
          /\ \E i \in 1..Len(retryQueue) : retryQueue[i] = [who |-> d, frame |-> "main"]

\* C2: requests sent with the same credential while no refresh is active, all
\* answered 401, start one Refresh Flow in total, in every order of the replies:
\* no request whose credential a finished Refresh Flow already served starts one.
C2_OneRefreshPerCredential ==
    \A c \in Callers : ~(req[c].refFor = "main" /\ req[c].mark = "served")

\* C3: a queued request leaves the queue to be sent only in the step in which the
\* refresh it waited for succeeds, and the sends of that step are made in the
\* order of the queue, the request that started the refresh coming last.
C3_QueueResentInOrder ==
    [][\A i \in 1..Len(retryQueue) :
          LET e == retryQueue[i]
          IN req'[e.who].pc \notin {"queued", "dropped"} =>
                /\ isRefreshing /\ ~isRefreshing'
                /\ token' = nextToken /\ storage' = nextToken
                /\ req'[e.who].pc = AwaitOf(e.frame)
                /\ req'[e.who].pos = i
                /\ \E c \in Callers :
                      /\ RefreshSucceeds(c)
                      /\ req'[c].pos = Len(retryQueue) + 1]_vars

\* Two queued requests and the request that started the refresh have been resent.
C3_Witness ==
    \E c, d, e \in Callers :
        /\ req[c].pc = "send" /\ req[c].pos = 1
        /\ req[d].pc = "send" /\ req[d].pos = 2
        /\ req[e].pc = "send" /\ req[e].pos = 3

\* C4: when a Refresh Flow fails, the store is cleared and the request that
\* started it fails in the same step with the refresh error: it is not sent again.
\* (When the /auth/login request started it, the Login Flow fails with that error
\* and only the caller's request, which awaited the login, may retry.)
C4_RefreshFailureClearsAndFails ==
    [][\A c \in Callers : RefreshFails(c) =>
          /\ token' = 0 /\ storage' = 0
          /\ req[c].refFor = "main" =>
                req'[c].pc = "failed" /\ req'[c].err = "refresh"
          /\ req[c].refFor = "login" =>
                /\ req'[c].pc \in {"failed", "wxLogin"}
                /\ req'[c].pc = "failed" => req'[c].err = "refresh"]_vars

\* A caller's request has failed with the refresh error and the store is cleared.
C4_Witness ==
    \E c \in Callers :
        /\ req[c].pc = "failed" /\ req[c].err = "refresh"
        /\ token = 0 /\ storage = 0 /\ ~isRefreshing

\* C5: a call that needs no login and whose attempts all fail is sent retry + 1
\* times, for every retry >= 0: never more, and it fails only after that many.
C5_SentRetryPlusOneTimes ==
    [][\A c \in Callers :
          LET r == mergeConfig(req[c].cfg).retry
          IN req[c].nlogin = 0 /\ req'[c].nlogin = 0 =>
                /\ req'[c].nsend <= r + 1
                /\ (req[c].pc = "send" /\ req'[c].pc = "failed" /\ req'[c].err = "main")
                      => req[c].nsend = r + 1]_vars

\* C6: every call of request() ends, resolved or rejected.
C6_EveryCallTerminates ==
    \A c \in Callers : (req[c].pc # "idle") ~> (req[c].pc \in {"done", "failed"})

\* C7: whenever isRefreshing is true it becomes false again.
C7_RefreshingEnds == isRefreshing ~> ~isRefreshing

\* C8: a request with auth = false never reads, writes or clears the store, and
\* its transport request carries no credential.
C8_NoAuthNoStoreAccess ==
    \A c \in Callers :
        ~mergeConfig(req[c].cfg).auth => ~req[c].touched /\ req[c].hdr = 0

\* C9: a Login Flow starts only when no credential is stored, runs once per call,
\* and the send that follows carries the token it stored.
C9_LoginExactlyOnce ==
    [][\A c \in Callers :
          /\ req'[c].nlogin <= 1
          /\ req'[c].nlogin > req[c].nlogin => token' = 0 /\ storage' = 0
          /\ (req[c].pc = "loginReq" /\ req'[c].pc = "send") =>
                req'[c].hdr = token' /\ token' # 0]_vars

\* C10: every show-loading of a call is followed by its hide-loading on every
\* exit path: a call that takes no further step (resolved, rejected, or its
\* queued closure discarded by a failed refresh) has no show-loading left unmatched.
C10_LoadingHidden ==
    \A c \in Callers :
        req[c].pc \in {"done", "failed", "dropped"} => req[c].loadDepth = 0

\* C11: when the Login Flow of a call fails (wx.login rejects, or the /auth/login
\* request ends with an error), the call fails in that step: neither wx.login nor
\* the /auth/login request is attempted again.
C11_LoginFailureSurfacedAtOnce ==
    [][\A c \in Callers :
          (/\ req[c].pc \in {"wxLogin", "loginReq"}
           /\ faults' = faults + 1
           /\ req'[c] # req[c]
           /\ req'[c].pc \notin {"refreshReq", "queued"})
              => req'[c].pc = "failed"]_vars

\* C12: a code-200 reply to a caller's request ends the call in that step and
\* changes nothing else: no send, no retry, no refresh, isRefreshing, the queue,
\* the store and every other call stay as they are; and a request that is
\* answered without a fault goes nowhere but to that end.
C12_Code200ReturnsAtOnce ==
    [][\A c \in Callers :
          /\ (req[c].pc = "send" /\ req'[c].pc # "send" /\ faults' = faults)
                => req'[c].pc = "done"
          /\ (req[c].pc = "send" /\ req'[c].pc = "done") =>
                /\ isRefreshing' = isRefreshing
                /\ retryQueue' = retryQueue
                /\ token' = token /\ storage' = storage
                /\ nextToken' = nextToken
                /\ \A d \in Callers \ {c} : req'[d] = req[d]
                /\ req'[c].retryCount = [f \in Frames |-> 0]
                /\ req'[c].nsend = 0 /\ req'[c].refFor = "none"]_vars

\* A call has returned its code-200 envelope while a refresh started by another
\* call is in flight and a third call waits in the queue.
C12_Witness ==
    \E c, d, e \in Callers :
        /\ req[c].pc = "done"
        /\ req[d].pc = "refreshReq" /\ isRefreshing
        /\ req[e].pc = "queued" /\ Len(retryQueue) = 1

\* C13: when a Refresh Flow fails while requests wait in the queue, the queue is
\* emptied, isRefreshing is reset, and the queued callers are left as they were
\* for ever: never resent, never resolved, never rejected.
C13_QueuedCallersLeftPending ==
    [][\A c \in Callers :
          /\ RefreshFails(c) =>
                /\ retryQueue' = <<>>
                /\ ~isRefreshing'
                /\ \A i \in 1..Len(retryQueue) :
                      /\ req'[retryQueue[i].who].pc = "dropped"
                      /\ req'[retryQueue[i].who].nsend = req[retryQueue[i].who].nsend
          /\ req[c].pc = "dropped" => req'[c] = req[c]]_vars

\* A refresh has failed with two requests in the queue: both are left pending.
C13_Witness ==
    /\ ~isRefreshing /\ retryQueue = <<>>
    /\ \E c, d \in Callers : c # d /\ req[c].pc = "dropped" /\ req[d].pc = "dropped"

\* C14: when a refresh succeeds and stores T2, the request that started it and
\* every request queued during it are resent in that step with the credential
\* T2, never with the stale one.
C14_ResentWithNewToken ==
    [][\A c \in Callers : RefreshSucceeds(c) =>
          /\ token' = nextToken /\ storage' = nextToken
          /\ req[c].refFor = "main" /\ mergeConfig(req[c].cfg).auth =>
                req'[c].pc = "send" /\ req'[c].hdr = nextToken
          /\ \A i \in 1..Len(retryQueue) :
                LET e == retryQueue[i]
                IN e.frame = "main" /\ mergeConfig(req[e.who].cfg).auth =>
                      /\ req'[e.who].pc = "send"
                      /\ req'[e.who].hdr = nextToken
                      /\ req'[e.who].hdr # req[e.who].hdr]_vars

\* Two requests that both got 401 with token 1 are outstanding again, both
\* carrying the token the refresh stored.
C14_Witness ==
    \E c, d \in Callers :
        /\ c # d /\ token = 2 /\ storage = 2 /\ ~isRefreshing
        /\ req[c].pc = "send" /\ req[c].hdr = 2 /\ req[c].pos = 1
        /\ req[d].pc = "send" /\ req[d].hdr = 2 /\ req[d].pos = 2

\* C15: a request that got 401 during a refresh waits in the queue, once, with
\* nothing outstanding; when the refresh succeeds, request() is called for it
\* exactly once (one show-loading, one send) and the queue is left empty.
C15_QueuedResubmittedOnce ==
    /\ [](\A c \in Callers :
            /\ req[c].pc = "queued" =>
                  Cardinality({i \in 1..Len(retryQueue) : retryQueue[i].who = c}) = 1
            /\ \A i \in 1..Len(retryQueue) : req[retryQueue[i].who].pc = "queued")
    /\ [][\A c \in Callers : RefreshSucceeds(c) =>
            /\ retryQueue' = <<>>
            /\ \A i \in 1..Len(retryQueue) :
                  LET e == retryQueue[i]
                  IN /\ req'[e.who].pc = AwaitOf(e.frame)
                     /\ e.frame = "main" =>
                           /\ req'[e.who].nsend = 1
                           /\ req'[e.who].loadDepth = req[e.who].loadDepth + 1]_vars

\* A refresh has succeeded with two requests in the queue; both have been
\* resubmitted once and the queue is empty.
C15_Witness ==
    /\ retryQueue = <<>> /\ ~isRefreshing
    /\ \E c, d \in Callers :
          /\ req[c].pc = "send" /\ req[c].pos = 1 /\ req[c].nsend = 1 /\ req[c].loadDepth = 2
          /\ req[d].pc = "send" /\ req[d].pos = 2 /\ req[d].nsend = 1 /\ req[d].loadDepth = 2

\* C16: the Credential Store over any sequence of setToken, getToken and
\* clearToken: getToken after setToken(t) returns t and t is persisted; getToken
\* after clearToken returns the empty token and nothing is persisted; and between
\* two writes getToken reads the storage at most once, also when no token exists.
C16_StoreContract ==
    /\ probe.last = "set" => storage = probe.val
    /\ probe.last = "clear" => storage = 0
    /\ (probe.op = "get" /\ probe.last # "none") => probe.ret = probe.val
    /\ probe.reads <= 1

\* C17: whenever control is back with the platform, isRefreshing = false implies
\* that the queue is empty.
C17_IdleMeansEmptyQueue == ~isRefreshing => retryQueue = <<>>

\* A refresh that had a request in its queue has ended: the flag is false, the
\* queue is empty, the queued request is left behind and the request that
\* started the refresh has failed.
C17_Witness ==
    /\ ~isRefreshing /\ retryQueue = <<>>
    /\ \E c, d \in Callers :
          /\ req[c].pc = "dropped"
          /\ req[d].pc = "failed" /\ req[d].err = "refresh"

\* C18: the /auth/refresh and /auth/login requests are never put in the queue,
\* whatever the server replies to them: only callers' requests wait there.
C18_AuthCallsNeverQueued ==
    \A i \in 1..Len(retryQueue) : retryQueue[i].frame = "main"

\* C19: the token in memory is empty or equal to the persisted token.
C19_MemoryMatchesStorage == token = 0 \/ token = storage

\* A login and then a refresh have each stored a token; memory and storage hold
\* the second one.
C19_Witness == token = 3 /\ storage = 3 /\ ~isRefreshing /\ req[1].nlogin = 1

====
